---- MODULE Spec2Model ----
(***************************************************************************)
(* A model of igor/binarywave.py: the Structure record engine, the         *)
(* endianness resolver, the version registry, the checksum, and loadibw's  *)
(* sequential decode of an IGOR binary wave file read from a byte stream.  *)
(*                                                                         *)
(* Bytes are naturals 0..255, a buffer is a sequence of bytes, a stream is *)
(* the pair (file, pos).  Floating point and character fields are carried  *)
(* as their raw bytes: no decision of loadibw reads their value.           *)
(***************************************************************************)
EXTENDS Integers, Sequences, FiniteSets, TLC

(***************************************************************************)
(* Program constants (wave.h values copied into binarywave.py).            *)
(***************************************************************************)
MAXDIMS == 4
MAX_WAVE_NAME2 == 18
MAX_WAVE_NAME5 == 31
MAX_UNIT_CHARS == 3

(***************************************************************************)
(* Bounds of the model.                                                    *)
(***************************************************************************)
\* npnts of the sample waves ranges over 0..MaxNpnts
MaxNpnts == 2
\* the declared payload length is off by 0..MaxSlack bytes from npnts * width
MaxSlack == 1
\* note / formula / units / label sections hold 0..MaxSection bytes
MaxSection == 2
\* a changed header byte moves up or down by 1..MaxFlipValue
MaxFlipValue == 1
\* string-index tables hold up to MaxTable entries
MaxTable == 3
\* the small index values of a table are 0..MaxIndex
MaxIndex == 2
\* a buffer handed to unpack_from lacks 0..MaxCut bytes of the structure
MaxCut == 2
\* a structure is unpacked at an offset in 0..MaxOffset
MaxOffset == 1
\* the buffers handed to checksum hold 0..MaxBuf bytes
MaxBuf == 4

(***************************************************************************)
(* Small arithmetic helpers.                                               *)
(***************************************************************************)
RECURSIVE Pow(_, _)
Pow(b, n) == IF n = 0 THEN 1 ELSE b * Pow(b, n - 1)

RECURSIVE SumSeq(_)
SumSeq(s) == IF s = << >> THEN 0 ELSE Head(s) + SumSeq(Tail(s))

RECURSIVE ProdSeq(_)
ProdSeq(s) == IF s = << >> THEN 1 ELSE Head(s) * ProdSeq(Tail(s))

Zeros(n) == [i \in 1..n |-> 0]

Min(a, b) == IF a < b THEN a ELSE b

\* python slice s[lo:hi] for 0 <= lo, clipped to the sequence
Slice(s, lo, hi) ==
    LET h == Min(hi, Len(s))
    IN IF lo >= h THEN << >> ELSE SubSeq(s, lo + 1, h)

(***************************************************************************)
(* Field and Structure: a Field is (format, name, count); total_count is   *)
(* numpy.prod(count).  count is kept as its tuple of dimensions.           *)
(***************************************************************************)
Field(format, name, count) ==
    [format |-> format, name |-> name, count |-> count,
     total_count |-> ProdSeq(count)]

\* struct's standard sizes; set_byte_order replaces 'P' by 'L'
FormatSize(c) ==
    CASE c = "h" -> 2
      [] c = "l" -> 4
      [] c = "L" -> 4
      [] c = "P" -> 4
      [] c = "f" -> 4
      [] c = "d" -> 8
      [] c = "c" -> 1

BinHeaderCommon ==
    [name |-> "BinHeaderCommon",
     fields |-> << Field("h", "version", <<1>>) >>]

BinHeader1 ==
    [name |-> "BinHeader1",
     fields |-> << Field("h", "version", <<1>>),
                   Field("l", "wfmSize", <<1>>),
                   Field("h", "checksum", <<1>>) >>]

BinHeader2 ==
    [name |-> "BinHeader2",
     fields |-> << Field("h", "version", <<1>>),
                   Field("l", "wfmSize", <<1>>),
                   Field("l", "noteSize", <<1>>),
                   Field("l", "pictSize", <<1>>),
                   Field("h", "checksum", <<1>>) >>]

BinHeader3 ==
    [name |-> "BinHeader3",
     fields |-> << Field("h", "version", <<1>>),
                   Field("h", "wfmSize", <<1>>),
                   Field("l", "noteSize", <<1>>),
                   Field("l", "formulaSize", <<1>>),
                   Field("l", "pictSize", <<1>>),
                   Field("h", "checksum", <<1>>) >>]

BinHeader5 ==
    [name |-> "BinHeader5",
     fields |-> << Field("h", "version", <<1>>),
                   Field("h", "checksum", <<1>>),
                   Field("l", "wfmSize", <<1>>),
                   Field("l", "formulaSize", <<1>>),
                   Field("l", "noteSize", <<1>>),
                   Field("l", "dataEUnitsSize", <<1>>),
                   Field("l", "dimEUnitsSize", <<MAXDIMS>>),
                   Field("l", "dimLabelsSize", <<MAXDIMS>>),
                   Field("l", "sIndicesSize", <<1>>),
                   Field("l", "optionsSize1", <<1>>),
                   Field("l", "optionsSize2", <<1>>) >>]

WaveHeader2 ==
    [name |-> "WaveHeader2",
     fields |-> << Field("h", "type", <<1>>),
                   Field("P", "next", <<1>>),
                   Field("c", "bname", <<MAX_WAVE_NAME2 + 2>>),
                   Field("h", "whVersion", <<1>>),
                   Field("h", "srcFldr", <<1>>),
                   Field("P", "fileName", <<1>>),
                   Field("c", "dataUnits", <<MAX_UNIT_CHARS + 1>>),
                   Field("c", "xUnits", <<MAX_UNIT_CHARS + 1>>),
                   Field("l", "npnts", <<1>>),
                   Field("h", "aModified", <<1>>),
                   Field("d", "hsA", <<1>>),
                   Field("d", "hsB", <<1>>),
                   Field("h", "wModified", <<1>>),
                   Field("h", "swModified", <<1>>),
                   Field("h", "fsValid", <<1>>),
                   Field("d", "topFullScale", <<1>>),
                   Field("d", "botFullScale", <<1>>),
                   Field("c", "useBits", <<1>>),
                   Field("c", "kindBits", <<1>>),
                   Field("P", "formula", <<1>>),
                   Field("l", "depID", <<1>>),
                   Field("L", "creationDate", <<1>>),
                   Field("c", "wUnused", <<2>>),
                   Field("L", "modDate", <<1>>),
                   Field("P", "waveNoteH", <<1>>),
                   Field("f", "wData", <<4>>) >>]

WaveHeader5 ==
    [name |-> "WaveHeader5",
     fields |-> << Field("P", "next", <<1>>),
                   Field("L", "creationDate", <<1>>),
                   Field("L", "modDate", <<1>>),
                   Field("l", "npnts", <<1>>),
                   Field("h", "type", <<1>>),
                   Field("h", "dLock", <<1>>),
                   Field("c", "whpad1", <<6>>),
                   Field("h", "whVersion", <<1>>),
                   Field("c", "bname", <<MAX_WAVE_NAME5 + 1>>),
                   Field("l", "whpad2", <<1>>),
                   Field("P", "dFolder", <<1>>),
                   Field("l", "nDim", <<MAXDIMS>>),
                   Field("d", "sfA", <<MAXDIMS>>),
                   Field("d", "sfB", <<MAXDIMS>>),
                   Field("c", "dataUnits", <<MAX_UNIT_CHARS + 1>>),
                   Field("c", "dimUnits", <<MAXDIMS, MAX_UNIT_CHARS + 1>>),
                   Field("h", "fsValid", <<1>>),
                   Field("h", "whpad3", <<1>>),
                   Field("d", "topFullScale", <<1>>),
                   Field("d", "botFullScale", <<1>>),
                   Field("P", "dataEUnits", <<1>>),
                   Field("P", "dimEUnits", <<MAXDIMS>>),
                   Field("P", "dimLabels", <<MAXDIMS>>),
                   Field("P", "waveNoteH", <<1>>),
                   Field("l", "whUnused", <<16>>),
                   Field("h", "aModified", <<1>>),
                   Field("h", "wModified", <<1>>),
                   Field("h", "swModified", <<1>>),
                   Field("c", "useBits", <<1>>),
                   Field("c", "kindBits", <<1>>),
                   Field("P", "formula", <<1>>),
                   Field("l", "depID", <<1>>),
                   Field("h", "whpad4", <<1>>),
                   Field("h", "srcFldr", <<1>>),
                   Field("P", "fileName", <<1>>),
                   Field("P", "sIndices", <<1>>),
                   Field("f", "wData", <<1>>) >>]

\* Structure.size: the packed size, standard sizes and no alignment
RECURSIVE FieldsSize(_)
FieldsSize(fs) ==
    IF fs = << >> THEN 0
    ELSE Head(fs).total_count * FormatSize(Head(fs).format) + FieldsSize(Tail(fs))

StructSize(S) == FieldsSize(S.fields)

FieldIndex(S, name) == CHOOSE i \in DOMAIN S.fields : S.fields[i].name = name

\* byte offset of field number i within the packed record
FieldOffset(S, i) == FieldsSize(SubSeq(S.fields, 1, i - 1))

(***************************************************************************)
(* Byte-level packing of integers (struct's 'h', 'l', 'L', 'P').           *)
(* A byte order is "<", ">" or "=" (native: that of the machine).          *)
(***************************************************************************)
ByteOrders == {"<", ">"}

\* sys.byteorder is "little" or "big"
NativeOrder(byteorder) == IF byteorder = "little" THEN "<" ELSE ">"

EffectiveOrder(order, byteorder) ==
    IF order = "=" THEN NativeOrder(byteorder) ELSE order

RECURSIVE UnsignedLE(_)
UnsignedLE(bytes) ==
    IF bytes = << >> THEN 0 ELSE Head(bytes) + 256 * UnsignedLE(Tail(bytes))

Reverse(s) == [i \in 1..Len(s) |-> s[Len(s) + 1 - i]]

\* the value v of n bytes read as two's complement
ToSigned(v, n) == IF v >= Pow(2, 8 * n - 1) THEN v - Pow(2, 8 * n) ELSE v

\* the two's complement value of n bytes at offset off (0-based) of buf: the
\* most significant byte is signed, the others are not
UnpackSigned(order, buf, off, n) ==
    LET bytes == SubSeq(buf, off + 1, off + n)
        le == IF order = "<" THEN bytes ELSE Reverse(bytes)
    IN UnsignedLE(SubSeq(le, 1, n - 1)) + Pow(256, n - 1) * ToSigned(le[n], 1)

\* struct.unpack of one element of a format character.  The values of the
\* unsigned 32-bit formats ('L', and 'P' which is packed as 'L') and of the
\* float and char formats are carried as their bytes.
UnpackValue(format, order, buf, off) ==
    LET n == FormatSize(format)
    IN IF format \in {"h", "l"} THEN UnpackSigned(order, buf, off, n)
       ELSE SubSeq(buf, off + 1, off + n)

\* the n low bytes of v, least significant first (two's complement: % and
\* \div round towards minus infinity)
RECURSIVE BytesLE(_, _)
BytesLE(v, n) == IF n = 0 THEN << >> ELSE << v % 256 >> \o BytesLE(v \div 256, n - 1)

\* struct.pack of one integer v in n bytes
PackInt(order, v, n) ==
    IF order = "<" THEN BytesLE(v, n) ELSE Reverse(BytesLE(v, n))

(***************************************************************************)
(* Structure._unflatten_args, unpack_from, unpack_dict_from.               *)
(***************************************************************************)
\* numpy reshape of a flat sequence to the (row-major) shape count
RECURSIVE Reshape(_, _)
Reshape(flat, count) ==
    IF Len(count) <= 1 THEN flat
    ELSE LET rest == ProdSeq(Tail(count))
         IN [i \in 1..Head(count) |->
                Reshape(SubSeq(flat, (i - 1) * rest + 1, i * rest), Tail(count))]

\* the value of field f unpacked from buf at byte offset o: a scalar when
\* total_count is 1, else the array of its elements reshaped to count
UnflattenField(f, order, buf, o) ==
    LET w == FormatSize(f.format)
    IN IF f.total_count > 1
       THEN Reshape([k \in 1..f.total_count |->
                        UnpackValue(f.format, order, buf, o + (k - 1) * w)],
                    f.count)
       ELSE UnpackValue(f.format, order, buf, o)

\* dict(zip(names, _unflatten_args(args))) of the fields fs, the first of
\* which starts at byte offset o of buf
RECURSIVE UnpackFields(_, _, _, _)
UnpackFields(fs, order, buf, o) ==
    IF fs = << >> THEN << >>
    ELSE (Head(fs).name :> UnflattenField(Head(fs), order, buf, o))
         @@ UnpackFields(Tail(fs), order, buf,
                         o + Head(fs).total_count * FormatSize(Head(fs).format))

FieldNames(S) == {S.fields[i].name : i \in DOMAIN S.fields}

\* unpack_from's buffer after "missing wData?  Pad with zeros"
Padded(S, buf, offset) ==
    IF Len(buf) - offset < StructSize(S)
    THEN buf \o Zeros(StructSize(S) + offset - Len(buf))
    ELSE buf

\* an unpack_from that pads the missing tail of every structure
unpack_from_pad_any(S, order, buf, offset) ==
    IF Len(buf) - offset >= StructSize(S) THEN "none"
    ELSE IF "npnts" \notin {S.fields[i].name : i \in DOMAIN S.fields} THEN "none"
    ELSE IF UnpackValue("l", order, buf \o Zeros(StructSize(S)),
                        offset + FieldOffset(S, FieldIndex(S, "npnts"))) # 0
    THEN "AssertionError:npnts"
    ELSE "none"

\* How Structure.unpack_from ends: struct.error when fewer than S.size bytes
\* remain at offset, except for the two wave headers, whose missing tail is
\* padded with zero bytes and whose npnts must then be 0.
unpack_from_error(S, order, buf, offset) ==
    IF Len(buf) - offset >= StructSize(S) THEN "none"
    ELSE IF S.name \notin {"WaveHeader2", "WaveHeader5"} THEN "struct.error"
    ELSE IF UnflattenField(S.fields[FieldIndex(S, "npnts")], order,
                           Padded(S, buf, offset),
                           offset + FieldOffset(S, FieldIndex(S, "npnts"))) # 0
    THEN "AssertionError:npnts"
    ELSE "none"

\* Structure.unpack_dict_from, when unpack_from does not raise
unpack_dict_from(S, order, buf, offset) ==
    UnpackFields(S.fields, order, Padded(S, buf, offset), offset)

\* Structure.set_byte_order on the table of the structures' current byte orders
set_byte_order(formats, name, order) ==
    IF formats[name] = order THEN formats
    ELSE [formats EXCEPT ![name] = order]

StructNames ==
    {"BinHeaderCommon", "BinHeader1", "BinHeader2", "BinHeader3", "BinHeader5",
     "WaveHeader2", "WaveHeader5"}

(***************************************************************************)
(* Functions from ReadWave.c.                                              *)
(***************************************************************************)
\* version & 0xFF == 0 (two's complement: the low byte of the 16-bit value)
\* a resolver that tests the high byte of the version word instead
need_to_reorder_bytes_high(v) == ((v \div 256) % 256) = 0

need_to_reorder_bytes(v) == (v % 256) = 0

byte_order(needToReorder, byteorder) ==
    LET little_endian == IF needToReorder THEN byteorder # "little"
                         ELSE byteorder = "little"
    IN IF little_endian THEN "<" ELSE ">"

Versions == {1, 2, 3, 5}

BinStruct(v) ==
    CASE v = 1 -> BinHeader1
      [] v = 2 -> BinHeader2
      [] v = 3 -> BinHeader3
      [] v = 5 -> BinHeader5

WaveStruct(v) == IF v = 5 THEN WaveHeader5 ELSE WaveHeader2

\* Version 5 checksum does not include the wData field
CheckSumSize(v) ==
    IF v = 5 THEN StructSize(BinStruct(v)) + StructSize(WaveStruct(v)) - 4
    ELSE StructSize(BinStruct(v)) + StructSize(WaveStruct(v))

\* version_structs: the registry lookup; ValueError for an unknown version
version_structs(v, order, formats) ==
    IF v \notin Versions
    THEN [ok |-> FALSE, formats |-> formats, checkSumSize |-> 0]
    ELSE [ok |-> TRUE,
          formats |-> set_byte_order(
                          set_byte_order(formats, BinStruct(v).name, order),
                          WaveStruct(v).name, order),
          checkSumSize |-> CheckSumSize(v)]

\* the sum of the 16-bit words number lo..hi (0-based) of buf read as signed
\* shorts (x.sum(), summed by halves)
RECURSIVE WordRangeSum(_, _, _, _)
WordRangeSum(buf, order, lo, hi) ==
    IF lo > hi THEN 0
    ELSE IF lo = hi THEN UnpackSigned(order, buf, 2 * lo, 2)
    ELSE LET mid == (lo + hi) \div 2
         IN WordRangeSum(buf, order, lo, mid) + WordRangeSum(buf, order, mid + 1, hi)

\* the sum of the first n 16-bit words of buf
WordSum(buf, order, n) == WordRangeSum(buf, order, 0, n - 1)

\* An integer as the pair (hi, lo) that stands for hi * 2^16 + lo, with lo in
\* 0..65535: 2^31 is (32768, 0) and 2^32 is (65536, 0).
Wide(x) == [hi |-> x \div 65536, lo |-> x % 65536]

\* x > 2**31
AboveTwo31(x) == x.hi > 32768 \/ (x.hi = 32768 /\ x.lo > 0)

\* x + s for a wide x and an integer s
WideAdd(x, s) ==
    [hi |-> x.hi + ((x.lo + s) \div 65536), lo |-> (x.lo + s) % 65536]

\* a rollover that saturates at the largest C int
RolloverSaturating(x) ==
    IF AboveTwo31(x) THEN [hi |-> 32767, lo |-> 65535] ELSE x

\* the C int rollover faked by checksum:
\*   if oldcksum > 2**31: oldcksum %= 2**32; if oldcksum > 2**31: oldcksum -= 2**31
Rollover(x) ==
    IF AboveTwo31(x)
    THEN LET m == [hi |-> x.hi % 65536, lo |-> x.lo]
         IN IF AboveTwo31(m) THEN [hi |-> m.hi - 32768, lo |-> m.lo] ELSE m
    ELSE x

\* a checksum that keeps only the low byte of the sum
checksum_low_byte(buf, order, oldcksum, numbytes) ==
    IF Len(buf) < 2 * (numbytes \div 2) THEN [ok |-> FALSE, c |-> 0]
    ELSE [ok |-> TRUE,
          c |-> (oldcksum + WordSum(buf, order, numbytes \div 2)) % 256]

\* checksum(buffer, byte_order, oldcksum, numbytes); numpy raises TypeError
\* when the buffer is smaller than the requested array of numbytes/2 shorts.
\* The value returned is oldcksum & 0xffff: the low word.
checksum_wide(buf, order, oldcksum, numbytes) ==
    LET n == numbytes \div 2
    IN IF Len(buf) < 2 * n
       THEN [ok |-> FALSE, c |-> 0]
       ELSE [ok |-> TRUE,
             c |-> Rollover(WideAdd(oldcksum, WordSum(buf, order, n))).lo]

\* checksum with an oldcksum below 2^31
checksum(buf, order, oldcksum, numbytes) ==
    checksum_wide(buf, order, Wide(oldcksum), numbytes)

\* assert_null's test: the buffer is non-empty and its largest byte is not 0
NotNull(buf) == buf # << >> /\ \E i \in DOMAIN buf : buf[i] # 0

(***************************************************************************)
(* TYPE_TABLE: the numpy itemsize of each type code (0 is the text wave,   *)
(* read as int8; numpy.complex is complex128).                             *)
(***************************************************************************)
TYPE_TABLE ==
    (0 :> 0) @@ (1 :> 16) @@ (2 :> 4) @@ (3 :> 8) @@ (4 :> 8) @@ (5 :> 16)
    @@ (8 :> 1) @@ (9 :> 2) @@ (16 :> 2) @@ (17 :> 4) @@ (32 :> 4) @@ (33 :> 8)
    @@ (72 :> 1) @@ (73 :> 2) @@ (80 :> 2) @@ (81 :> 4) @@ (96 :> 4) @@ (97 :> 8)

(***************************************************************************)
(* The byte stream: f.read(n) returns up to n bytes from pos, and every    *)
(* remaining byte when n is negative.                                      *)
(***************************************************************************)
Read(f, p, n) ==
    IF n < 0 THEN Slice(f, p, Len(f)) ELSE Slice(f, p, p + n)

\* one entry of the log of read calls: the section read, the position it
\* started at, the size asked for and the number of bytes returned
ReadEntry(sec, p, n, bytes) ==
    [sec |-> sec, start |-> p, size |-> n, got |-> Len(bytes)]

\* the read calls of a list of (section, size) made one after the other
RECURSIVE ReadAll(_, _, _)
ReadAll(f, p, calls) ==
    IF calls = << >> THEN << >>
    ELSE LET bytes == Read(f, p, Head(calls).size)
         IN << [sec |-> Head(calls).sec, start |-> p, size |-> Head(calls).size,
                bytes |-> bytes] >>
            \o ReadAll(f, p + Len(bytes), Tail(calls))

(***************************************************************************)
(* str.strip() and str.split(chr(0)) on byte strings.                      *)
(***************************************************************************)
Whitespace == {9, 10, 11, 12, 13, 32}

RECURSIVE LStrip(_)
LStrip(s) ==
    IF s # << >> /\ Head(s) \in Whitespace THEN LStrip(Tail(s)) ELSE s

Strip(s) == Reverse(LStrip(Reverse(LStrip(s))))

\* the non-empty pieces of s between null bytes
RECURSIVE NonEmptyLabels(_, _)
NonEmptyLabels(s, cur) ==
    IF s = << >> THEN (IF cur = << >> THEN << >> ELSE << cur >>)
    ELSE IF Head(s) = 0
    THEN (IF cur = << >> THEN << >> ELSE << cur >>) \o NonEmptyLabels(Tail(s), << >>)
    ELSE NonEmptyLabels(Tail(s), Append(cur, Head(s)))

(***************************************************************************)
(* Shapes.                                                                 *)
(***************************************************************************)
\* [n for n in nDim if n > 0]
RECURSIVE PositiveExtents(_)
PositiveExtents(nDim) ==
    IF nDim = << >> THEN << >>
    ELSE (IF Head(nDim) > 0 THEN << Head(nDim) >> ELSE << >>)
         \o PositiveExtents(Tail(nDim))

\* [n for n in wave_info['nDim'] if n > 0] or (0,)
ShapeOf(nDim) ==
    IF PositiveExtents(nDim) = << >> THEN << 0 >> ELSE PositiveExtents(nDim)

\* the size assertion of a non-text wave
\* a size check that only asks for enough bytes
SizeAtLeast(size, npnts, itemsize) == size >= npnts * itemsize

SizeMatches(size, npnts, itemsize) == size = npnts * itemsize

(***************************************************************************)
(* The text-wave splitter: the loop over bin_info['sIndices'].  data holds *)
(* int8 values; chr(x) raises ValueError for a negative x.                 *)
(***************************************************************************)
RECURSIVE SplitStrings(_, _, _, _)
SplitStrings(dat, sIndices, start, strings) ==
    IF sIndices = << >>
    THEN [err |-> "none", strings |-> strings, start |-> start]
    ELSE LET offset == Head(sIndices)
             string == Slice(dat, start, offset)
         IN IF offset > start
            THEN IF \E i \in DOMAIN string : string[i] < 0
                 THEN [err |-> "ValueError:chr", strings |-> strings, start |-> start]
                 ELSE SplitStrings(dat, Tail(sIndices), offset, Append(strings, string))
            ELSE IF offset = 0
                 THEN SplitStrings(dat, Tail(sIndices), start, strings)
                 ELSE [err |-> "AssertionError:offset", strings |-> strings,
                       start |-> start]

\* the payload bytes as the int8 array numpy.ndarray makes of them
AsInt8(bytes) == [i \in DOMAIN bytes |-> ToSigned(bytes[i], 1)]

(***************************************************************************)
(* The state: sys.byteorder, loadibw's arguments (the stream f = file at   *)
(* pos, strict), the byte orders of the module-level Structures (formats), *)
(* loadibw's locals, the log of f.read calls, and where loadibw is (pc).   *)
(* sample and change record how the file under decode was made.            *)
(***************************************************************************)
VARIABLES byteorder, strict, file, pos, pc, err, formats, b, version,
          needToReorderBytes, byteOrder, c, bin_info, wave_info, tail,
          waveDataSize, shape, t, data_b, data, strings, warned, reads,
          sample, change

vars == << byteorder, strict, file, pos, pc, err, formats, b, version,
           needToReorderBytes, byteOrder, c, bin_info, wave_info, tail,
           waveDataSize, shape, t, data_b, data, strings, warned, reads,
           sample, change >>

\* what no step of loadibw assigns
env == << byteorder, strict, file, sample, change >>

\* a numpy array: its shape and its items
Array(sh, items) == [shape |-> sh, items |-> items]

NoArray == [shape |-> << >>, items |-> << >>]

\* sizes of the header pair of a version
BinSize(v) == StructSize(BinStruct(v))
WaveSize(v) == StructSize(WaveStruct(v))
HeaderSize(v) == BinSize(v) + WaveSize(v)

\* size of the wData field of the version's wave header
TailOf(v) == IF v = 5 THEN 4 ELSE 16

\* the payload length loadibw derives from wfmSize
WaveDataSizeOf(v, wfmSize) ==
    IF v \in {1, 2, 3} THEN wfmSize - WaveSize(v)
    ELSE wfmSize - (WaveSize(v) - TailOf(v))

(***************************************************************************)
(* loadibw, lines 498-507: read the common header, resolve the byte order  *)
(* and the version, look the version up.                                   *)
(***************************************************************************)
\* the version field of the common header read in a byte order
CommonVersion(order, buf) ==
    unpack_dict_from(BinHeaderCommon, order, buf, 0)["version"]

Resolve ==
    /\ pc = "start"
    /\ b' = Read(file, pos, StructSize(BinHeaderCommon))
    /\ pos' = pos + Len(b')
    /\ reads' = Append(reads, ReadEntry("common", pos,
                                        StructSize(BinHeaderCommon), b'))
    /\ LET f0 == set_byte_order(formats, "BinHeaderCommon", "=")
           e0 == unpack_from_error(BinHeaderCommon, "=", b', 0)
       IN IF e0 # "none"
          THEN /\ pc' = "error"
               /\ err' = e0
               /\ formats' = f0
               /\ UNCHANGED << version, needToReorderBytes, byteOrder >>
          ELSE /\ needToReorderBytes' =
                      need_to_reorder_bytes(
                          CommonVersion(
                              EffectiveOrder(f0["BinHeaderCommon"], byteorder), b'))
               /\ byteOrder' = byte_order(needToReorderBytes', byteorder)
               /\ LET f1 == IF needToReorderBytes'
                            THEN set_byte_order(f0, "BinHeaderCommon", byteOrder')
                            ELSE f0
                  IN /\ version' =
                            CommonVersion(
                                EffectiveOrder(f1["BinHeaderCommon"], byteorder), b')
                     /\ formats' = version_structs(version', byteOrder', f1).formats
               /\ pc' = IF version' \in Versions THEN "headers" ELSE "error"
               /\ err' = IF version' \in Versions THEN "none"
                         ELSE "ValueError:version"
    /\ UNCHANGED << c, bin_info, wave_info, tail, waveDataSize, shape, t,
                    data_b, data, strings, warned >>
    /\ UNCHANGED env

(***************************************************************************)
(* loadibw, lines 509-540: read the header pair, verify the checksum,      *)
(* unpack both headers, derive the payload length, the shape and the type, *)
(* and check the payload length of a non-text wave.  A step that raises    *)
(* leaves the locals after it unassigned.                                  *)
(***************************************************************************)
\* line 510-514: the checksum of the header pair; -1 when numpy raises
HeaderChecksum(v, order, buf) ==
    IF checksum(buf, order, 0, CheckSumSize(v)).ok
    THEN checksum(buf, order, 0, CheckSumSize(v)).c
    ELSE -1

\* the exception of lines 510-516, if any
HeaderError(v, order, buf, ck) ==
    IF ck = -1 THEN "TypeError:buffer"
    ELSE IF ck # 0 THEN "ValueError:checksum"
    ELSE IF unpack_from_error(BinStruct(v), order, buf, 0) # "none"
    THEN unpack_from_error(BinStruct(v), order, buf, 0)
    ELSE unpack_from_error(WaveStruct(v), order, buf, BinSize(v))

\* lines 529-534: the shape of the array
ShapeRule(v, wi, size) ==
    IF wi["type"] = 0 THEN << size >>
    ELSE IF v = 5 THEN ShapeOf(wi["nDim"])
    ELSE << wi["npnts"] >>

\* lines 533-540: the exception of the type lookup and size assertion, if any
TypeError(wi, size) ==
    IF wi["type"] = 0 THEN "none"
    ELSE IF wi["type"] \notin DOMAIN TYPE_TABLE THEN "KeyError:type"
    ELSE IF ~SizeMatches(size, wi["npnts"], TYPE_TABLE[wi["type"]])
    THEN "AssertionError:size"
    ELSE "none"

\* lines 535-537: the itemsize of the array's dtype
ItemSize(wi) ==
    IF wi["type"] = 0 THEN 1
    ELSE IF wi["type"] \in DOMAIN TYPE_TABLE THEN TYPE_TABLE[wi["type"]]
    ELSE 0

ReadHeaders ==
    /\ pc = "headers"
    /\ b' = b \o Read(file, pos, HeaderSize(version) - StructSize(BinHeaderCommon))
    /\ pos' = pos + (Len(b') - Len(b))
    /\ reads' = Append(reads,
           [sec |-> "headers", start |-> pos,
            size |-> HeaderSize(version) - StructSize(BinHeaderCommon),
            got |-> Len(b') - Len(b)])
    /\ c' = HeaderChecksum(version, byteOrder, b')
    /\ LET bo == EffectiveOrder(formats[BinStruct(version).name], byteorder)
           wo == EffectiveOrder(formats[WaveStruct(version).name], byteorder)
           e == HeaderError(version, bo, b', c')
       IN IF e # "none"
          THEN /\ pc' = "error"
               /\ err' = e
               /\ UNCHANGED << bin_info, wave_info, tail, waveDataSize, shape, t >>
          ELSE /\ bin_info' = unpack_dict_from(BinStruct(version), bo, b', 0)
               /\ wave_info' = unpack_dict_from(WaveStruct(version), wo, b',
                                                BinSize(version))
               /\ tail' = TailOf(version)
               /\ waveDataSize' = WaveDataSizeOf(version, bin_info'["wfmSize"])
               /\ shape' = ShapeRule(version, wave_info', waveDataSize')
               /\ t' = ItemSize(wave_info')
               /\ err' = TypeError(wave_info', waveDataSize')
               /\ pc' = IF err' = "none" THEN "payload" ELSE "error"
    /\ UNCHANGED << formats, version, needToReorderBytes, byteOrder, data_b, data,
                    strings, warned >>
    /\ UNCHANGED env

(***************************************************************************)
(* loadibw, lines 541-551: the payload bytes and the array made of them.   *)
(***************************************************************************)
\* numpy.ndarray(shape, dtype, buffer): ValueError for a negative extent,
\* TypeError when the buffer is too small for the requested array
NdArray(sh, itemsize, buf) ==
    IF \E i \in DOMAIN sh : sh[i] < 0
    THEN [err |-> "ValueError:negative", array |-> NoArray]
    ELSE IF ProdSeq(sh) * itemsize > Len(buf)
    THEN [err |-> "TypeError:buffer", array |-> NoArray]
    ELSE [err |-> "none",
          array |-> Array(sh, SubSeq(buf, 1, ProdSeq(sh) * itemsize))]

\* the size handed to f.read for the rest of the payload
PayloadReadSize(size, tl) == size - tl

ReadPayload ==
    /\ pc = "payload"
    /\ LET more == IF wave_info["npnts"] = 0 THEN << >>
                   ELSE Read(file, pos, PayloadReadSize(waveDataSize, tail))
           buf == IF wave_info["npnts"] = 0 THEN << >>
                  ELSE Slice(b, Len(b) - Min(tail, Len(b)), Len(b)) \o more
           arr == NdArray(shape, t, buf)
       IN /\ data_b' = buf
          /\ pos' = pos + Len(more)
          /\ reads' = IF wave_info["npnts"] = 0 THEN reads
                      ELSE Append(reads,
                               ReadEntry("payload", pos,
                                         PayloadReadSize(waveDataSize, tail), more))
          /\ data' = arr.array
          /\ err' = arr.err
          /\ pc' = IF arr.err = "none" THEN "trailing" ELSE "error"
    /\ UNCHANGED << formats, b, version, needToReorderBytes, byteOrder, c,
                    bin_info, wave_info, tail, waveDataSize, shape, t, strings,
                    warned >>
    /\ UNCHANGED env

(***************************************************************************)
(* loadibw, lines 553-619: the post-data sections, read one after the      *)
(* other; each size is a field of bin_info.                                *)
(***************************************************************************)
Call(sec, size) == [sec |-> sec, size |-> size]

DimEUnitsNames == << "dimEUnits0", "dimEUnits1", "dimEUnits2", "dimEUnits3" >>
DimLabelsNames == << "dimLabels0", "dimLabels1", "dimLabels2", "dimLabels3" >>

\* the f.read calls of the version's branch, in program order
TrailingCalls(v, bi, type) ==
    CASE v = 1 -> << >>
      [] v = 2 -> << Call("padding", 16), Call("note", bi["noteSize"]) >>
      [] v = 3 -> << Call("padding", 16), Call("note", bi["noteSize"]),
                     Call("formula", bi["formulaSize"]) >>
      [] v = 5 -> << Call("formula", bi["formulaSize"]),
                     Call("note", bi["noteSize"]),
                     Call("dataEUnits", bi["dataEUnitsSize"]) >>
                  \o [i \in 1..MAXDIMS |->
                         Call(DimEUnitsNames[i], bi["dimEUnitsSize"][i])]
                  \o [i \in 1..MAXDIMS |->
                         Call(DimLabelsNames[i], bi["dimLabelsSize"][i])]
                  \o (IF type = 0 THEN << Call("sIndices", bi["sIndicesSize"]) >>
                      ELSE << >>)

\* the bytes a list of performed reads returned for a section
BytesOf(done, sec) ==
    LET i == CHOOSE k \in DOMAIN done : done[k].sec = sec IN done[i].bytes

\* the keys the version's branch adds to bin_info
TrailingInfo(v, type, done) ==
    CASE v = 1 -> << >>
      [] v = 2 -> ("note" :> Strip(BytesOf(done, "note")))
      [] v = 3 -> ("note" :> Strip(BytesOf(done, "note")))
                  @@ ("formula" :> Strip(BytesOf(done, "formula")))
      [] v = 5 ->
            ("formula" :> Strip(BytesOf(done, "formula")))
            @@ ("note" :> Strip(BytesOf(done, "note")))
            @@ ("dataEUnits" :> Strip(BytesOf(done, "dataEUnits")))
            @@ ("dimEUnits" :>
                   [i \in 1..MAXDIMS |-> Strip(BytesOf(done, DimEUnitsNames[i]))])
            @@ ("dimLabels" :>
                   [i \in 1..MAXDIMS |->
                       NonEmptyLabels(BytesOf(done, DimLabelsNames[i]), << >>)])
            @@ (IF type = 0 THEN ("sIndices" :> BytesOf(done, "sIndices"))
                ELSE << >>)

\* assert_null(pad_b, strict) raises
PaddingRaises(v, st, pad) == v \in {2, 3} /\ st /\ NotNull(pad)

ReadTrailing ==
    /\ pc = "trailing"
    /\ LET all == ReadAll(file, pos,
                          TrailingCalls(version, bin_info, wave_info["type"]))
           pad == IF version \in {2, 3} THEN all[1].bytes ELSE << >>
           raises == PaddingRaises(version, strict, pad)
           done == IF raises THEN SubSeq(all, 1, 1) ELSE all
       IN /\ reads' = reads \o [i \in DOMAIN done |->
                                   ReadEntry(done[i].sec, done[i].start,
                                             done[i].size, done[i].bytes)]
          /\ pos' = pos + SumSeq([i \in DOMAIN done |-> Len(done[i].bytes)])
          /\ warned' = (version \in {2, 3} /\ ~strict /\ NotNull(pad))
          /\ bin_info' = IF raises THEN bin_info
                         ELSE TrailingInfo(version, wave_info["type"], done)
                              @@ bin_info
          /\ err' = IF raises THEN "ValueError:padding" ELSE "none"
          /\ pc' = IF raises THEN "error" ELSE "split"
    /\ UNCHANGED << formats, b, version, needToReorderBytes, byteOrder, c,
                    wave_info, tail, waveDataSize, shape, t, data_b, data,
                    strings >>
    /\ UNCHANGED env

(***************************************************************************)
(* loadibw, lines 621-640: a text wave is split into strings; the result   *)
(* is returned.                                                            *)
(***************************************************************************)
\* ndarray.reshape: a new array of the shape, ValueError when the sizes differ
reshape(arr, sh) ==
    IF ProdSeq(sh) # ProdSeq(arr.shape)
    THEN [err |-> "ValueError:reshape", array |-> NoArray]
    ELSE [err |-> "none", array |-> Array(sh, arr.items)]

\* lines 633-635: data = numpy.array(strings); data.reshape(shape)
\* (the array reshape returns is not assigned)
StringsArray(strs, sh) ==
    LET arr == Array(<< Len(strs) >>, strs)
    IN [err |-> reshape(arr, sh).err, array |-> arr]

Finish ==
    /\ pc = "split"
    /\ IF wave_info["type"] # 0
       THEN /\ pc' = "done"
            /\ UNCHANGED << err, data, strings, shape >>
       ELSE IF "sIndices" \notin DOMAIN bin_info
       THEN /\ pc' = "error"
            /\ err' = "KeyError:sIndices"
            /\ UNCHANGED << data, strings, shape >>
       ELSE LET sp == SplitStrings(AsInt8(data.items), bin_info["sIndices"],
                                   0, << >>)
                sh == ShapeOf(wave_info["nDim"])
                out == StringsArray(sp.strings, sh)
            IN /\ strings' = sp.strings
               /\ IF sp.err # "none"
                  THEN /\ pc' = "error"
                       /\ err' = sp.err
                       /\ UNCHANGED << data, shape >>
                  ELSE /\ data' = out.array
                       /\ shape' = sh
                       /\ err' = out.err
                       /\ pc' = IF out.err = "none" THEN "done" ELSE "error"
    /\ UNCHANGED << pos, formats, b, version, needToReorderBytes, byteOrder, c,
                    bin_info, wave_info, tail, waveDataSize, t, data_b, warned,
                    reads >>
    /\ UNCHANGED env

(***************************************************************************)
(* The files under decode.  saveibw is not implemented, so sample files    *)
(* are laid out here from the Structures: every field not named is zero,   *)
(* the payload starts at the wData field of the wave header, the trailing  *)
(* sections follow the payload, and the checksum field is set so that the  *)
(* checksum over the version's window is zero.                             *)
(***************************************************************************)
\* the packed bytes of the fields fs, taking each value from vals (default 0)
RECURSIVE PackFields(_, _, _)
PackFields(fs, order, vals) ==
    IF fs = << >> THEN << >>
    ELSE LET f == Head(fs)
             w == FormatSize(f.format)
             bytes ==
                 IF f.name \notin DOMAIN vals THEN Zeros(f.total_count * w)
                 ELSE IF f.total_count > 1
                 THEN PackInt(order, vals[f.name][1], w)
                      \o PackInt(order, vals[f.name][2], w)
                      \o PackInt(order, vals[f.name][3], w)
                      \o PackInt(order, vals[f.name][4], w)
                 ELSE PackInt(order, vals[f.name], w)
         IN bytes \o PackFields(Tail(fs), order, vals)

\* buf with the bytes at offset off (0-based) replaced
Overwrite(buf, off, bytes) ==
    [i \in DOMAIN buf |->
        IF i > off /\ i <= off + Len(bytes) THEN bytes[i - off] ELSE buf[i]]

RECURSIVE Concat(_)
Concat(ss) == IF ss = << >> THEN << >> ELSE Head(ss) \o Concat(Tail(ss))

\* the bin header's size fields of a sample
BinValues(p) ==
    LET v == p.version
        wfm == IF v = 5 THEN p.size + (WaveSize(v) - TailOf(v))
               ELSE p.size + WaveSize(v)
        n(k) == Len(p.sections[k])
    IN CASE v = 1 -> ("version" :> v) @@ ("wfmSize" :> wfm)
         [] v = 2 -> ("version" :> v) @@ ("wfmSize" :> wfm) @@ ("noteSize" :> n(1))
         [] v = 3 -> ("version" :> v) @@ ("wfmSize" :> wfm) @@ ("noteSize" :> n(1))
                     @@ ("formulaSize" :> n(2))
         [] v = 5 -> ("version" :> v) @@ ("wfmSize" :> wfm)
                     @@ ("formulaSize" :> n(1)) @@ ("noteSize" :> n(2))
                     @@ ("dataEUnitsSize" :> n(3))
                     @@ ("dimEUnitsSize" :> << n(4), n(5), n(6), n(7) >>)
                     @@ ("dimLabelsSize" :> << n(8), n(9), n(10), n(11) >>)
                     @@ ("sIndicesSize" :> Len(p.sIndices))

WaveValues(p) ==
    IF p.version = 5
    THEN ("type" :> p.type) @@ ("npnts" :> p.npnts) @@ ("nDim" :> p.nDim)
    ELSE ("type" :> p.type) @@ ("npnts" :> p.npnts)

\* the file before its checksum field is set
SampleLayout(p) ==
    LET v == p.version
        hdr == PackFields(BinStruct(v).fields, p.order, BinValues(p))
               \o PackFields(WaveStruct(v).fields, p.order, WaveValues(p))
        body == IF p.npnts = 0 THEN Zeros(TailOf(v)) ELSE p.payload
        pad == IF v \in {2, 3} THEN p.padding ELSE << >>
        rest == IF v = 1 THEN << >>
                ELSE IF v = 5 THEN Concat(p.sections) \o p.sIndices
                ELSE Concat(p.sections)
    IN SubSeq(hdr, 1, HeaderSize(v) - TailOf(v)) \o body \o pad \o rest

ChecksumOffset(v) ==
    FieldOffset(BinStruct(v), FieldIndex(BinStruct(v), "checksum"))

\* the sample file: the layout with its checksum forced to zero
SampleFile(p) ==
    LET lay == SampleLayout(p)
        n == CheckSumSize(p.version) \div 2
    IN IF Len(lay) < 2 * n THEN lay
       ELSE Overwrite(lay, ChecksumOffset(p.version),
                      PackInt(p.order, 0 - WordSum(lay, p.order, n), 2))

\* the state loadibw is called in
Start(bo, st, p, f, ch) ==
    /\ byteorder = bo
    /\ strict = st
    /\ sample = p
    /\ change = ch
    /\ file = f
    /\ pos = 0
    /\ pc = "start"
    /\ err = "none"
    /\ formats = [n \in StructNames |-> "="]
    /\ b = << >>
    /\ version = 0
    /\ needToReorderBytes = FALSE
    /\ byteOrder = "="
    /\ c = -1
    /\ bin_info = << >>
    /\ wave_info = << >>
    /\ tail = 0
    /\ waveDataSize = 0
    /\ shape = << >>
    /\ t = 0
    /\ data_b = << >>
    /\ data = NoArray
    /\ strings = << >>
    /\ warned = FALSE
    /\ reads = << >>

NoChange == [at |-> -1, old |-> 0, new |-> 0]

(***************************************************************************)
(* The sample waves of the main specification: every version, both file    *)
(* byte orders, a text, two numeric and one unknown type code, npnts in    *)
(* 0..MaxNpnts, a payload length that is or is not npnts * width, version  *)
(* 5 extents with and without an inner zero, zero and non-zero padding     *)
(* (versions 2 and 3), and trailing sections of different sizes.           *)
(***************************************************************************)
SampleTypes == {0, 8, 5, 7}

\* bytes per point of a sample: the itemsize of a numeric type; a text sample
\* holds strings of TextWidth bytes
TextWidth == 4

WidthOf(type) ==
    IF type = 0 THEN TextWidth
    ELSE IF type \in DOMAIN TYPE_TABLE THEN TYPE_TABLE[type]
    ELSE 1

\* payload bytes 'a', 'b', ...
PayloadBytes(n) == [i \in 1..n |-> 96 + i]

\* section number k holds n bytes 'A' + k
SectionBytes(k, n) == [i \in 1..n |-> 64 + k]

NSections(v) == CASE v = 1 -> 0 [] v = 2 -> 1 [] v = 3 -> 2 [] v = 5 -> 11

SectionsOf(v, s) ==
    [k \in 1..NSections(v) |-> SectionBytes(k, (s + k) % (MaxSection + 1))]

PaddingChoices(v) ==
    IF v \in {2, 3} THEN {Zeros(16), [Zeros(16) EXCEPT ![16] = 1]} ELSE {<< >>}

ExtentChoices(v, n) ==
    IF v = 5
    THEN {<< n, 0, 0, 0 >>, << n, 1, 0, 0 >>, << n, 0, 1, 0 >>, << 0, 0, 0, 0 >>}
    ELSE {<< n, 0, 0, 0 >>}

\* a text sample's string indices: string number i ends at byte TextWidth * i
UnitIndices(n) == [i \in 1..n |-> TextWidth * i]

Sample(v, o, ty, n, size, nd, pd, secs, idx) ==
    [version |-> v, order |-> o, type |-> ty, npnts |-> n, size |-> size,
     nDim |-> nd, payload |-> PayloadBytes(size), padding |-> pd,
     sections |-> secs, sIndices |-> idx]

\* the sample of n points of type ty, sl bytes of slack, sections from s
SampleAt(v, o, ty, n, sl, nd, pd, s) ==
    Sample(v, o, ty, n, n * WidthOf(ty) + sl, nd, pd, SectionsOf(v, s),
           IF v = 5 /\ ty = 0 THEN UnitIndices(n) ELSE << >>)

StrictChoices(v) == IF v \in {2, 3} THEN BOOLEAN ELSE {TRUE}

Init ==
    \E v \in Versions, o \in ByteOrders, ty \in SampleTypes, n \in 0..MaxNpnts :
        \E nd \in ExtentChoices(v, n), pd \in PaddingChoices(v),
           s \in 0..MaxSection, sl \in 0..MaxSlack :
            \E p \in {SampleAt(v, o, ty, n, sl, nd, pd, s)} :
                \E f \in {SampleFile(p)} :
                    \E bo \in {"little", "big"}, st \in StrictChoices(v) :
                        Start(bo, st, p, f, NoChange)

Next == Resolve \/ ReadHeaders \/ ReadPayload \/ ReadTrailing \/ Finish

Spec == Init /\ [][Next]_vars

(***************************************************************************)
(* Properties of the byte-order resolver, the shape rule and the size      *)
(* check, over the sample waves of Spec.                                   *)
(***************************************************************************)

\* the header pair has been read, its checksum passed and both headers decoded
HeadersDecoded == wave_info # << >>

NumericWave ==
    /\ HeadersDecoded
    /\ wave_info["type"] # 0
    /\ wave_info["type"] \in DOMAIN TYPE_TABLE

\* calls that read the header pair
HeaderSections == {"common", "headers"}

\* nothing but the header pair has been read from the stream
OnlyHeadersRead ==
    /\ pos <= HeaderSize(sample.version)
    /\ \A i \in 1..Len(reads) : reads[i].sec \in HeaderSections

\* C1: for a file whose real version v is 1, 2, 3 or 5, the resolver reports
\* that reordering is required exactly when the file's byte order differs from
\* the machine's, and the version decoded in the resolved order is v.
C1_ResolverFindsOrder ==
    pc # "start" =>
        /\ needToReorderBytes <=> (sample.order # NativeOrder(byteorder))
        /\ version = sample.version
        /\ byteOrder = sample.order

C1_SwappedFileResolved ==
    /\ pc = "headers"
    /\ needToReorderBytes
    /\ byteorder = "little"
    /\ sample.order = ">"
    /\ version = 5

\* the payload length the two headers state: the wave-region size less the
\* wave header without its tail (version 5), or less 16 and less the wave
\* header without its tail (versions 1 to 3)
StatedPayloadLength ==
    IF version = 5
    THEN bin_info["wfmSize"] - (WaveSize(5) - 4)
    ELSE bin_info["wfmSize"] - 16 - (WaveSize(version) - 16)

RECURSIVE LeadingRun(_)
LeadingRun(nDim) ==
    IF nDim = << >> \/ Head(nDim) <= 0 THEN << >>
    ELSE << Head(nDim) >> \o LeadingRun(Tail(nDim))

\* the shape the leading-run rule gives a version-5 wave
LeadingRunShape(nDim) ==
    IF LeadingRun(nDim) = << >> THEN << 0 >> ELSE LeadingRun(nDim)

\* C3: the shape of a numeric version-5 wave's array is the leading run of
\* positive extents, or the single extent 0 when the first extent is not
\* positive; for versions 1 to 3 it is the point count alone.
C3_ShapeIsLeadingRun ==
    (NumericWave /\ pc \in {"payload", "trailing", "split", "done"}) =>
        LET expected == IF version = 5
                        THEN LeadingRunShape(wave_info["nDim"])
                        ELSE << wave_info["npnts"] >>
        IN /\ shape = expected
           /\ data # NoArray => data.shape = expected

(***************************************************************************)
(* SpecFlip: one byte of the header pair of a checksum-valid file is       *)
(* changed before the file is decoded.                                     *)
(***************************************************************************)
\* the changes made to a byte: add or subtract up to MaxFlipValue, or flip
\* the top bit
FlipDeltas ==
    (1..MaxFlipValue) \cup {256 - d : d \in 1..MaxFlipValue} \cup {128}

\* one complex128 point, zero padding, sections of mixed sizes
FlipSamples ==
    { Sample(v, o, 5, 1, WidthOf(5), << 1, 0, 0, 0 >>,
             IF v \in {2, 3} THEN Zeros(16) ELSE << >>,
             SectionsOf(v, 1), << >>) :
          v \in Versions, o \in ByteOrders }

ChangeByte ==
    /\ pc = "start"
    /\ change = NoChange
    /\ \E at \in 0..(HeaderSize(sample.version) - 1), d \in FlipDeltas :
           /\ file' = [file EXCEPT ![at + 1] = (@ + d) % 256]
           /\ change' = [at |-> at, old |-> file[at + 1],
                         new |-> (file[at + 1] + d) % 256]
    /\ UNCHANGED << byteorder, strict, sample, pos, pc, err, formats, b,
                    version, needToReorderBytes, byteOrder, c, bin_info,
                    wave_info, tail, waveDataSize, shape, t, data_b, data,
                    strings, warned, reads >>

InitFlip ==
    \E p \in FlipSamples :
        Start("little", TRUE, p, SampleFile(p), NoChange)

NextFlip ==
    ChangeByte \/ Resolve \/ ReadHeaders \/ ReadPayload \/ ReadTrailing \/ Finish

SpecFlip == InitFlip /\ [][NextFlip]_vars

\* the changed byte lies in the version field
VersionFieldChanged == change.at \in 0..(StructSize(BinHeaderCommon) - 1)

\* the changed byte lies in the bytes the checksum sums
WindowChanged ==
    change.at \in StructSize(BinHeaderCommon)..(CheckSumSize(sample.version) - 1)

\* C2: the unchanged header pair has checksum zero; changing one byte of the
\* checksum window outside the version field makes the computed checksum
\* non-zero and decode fail with the checksum error; changing a byte of the
\* header pair past the checksum window leaves the checksum zero.
C2_WindowByteChangeDetected ==
    /\ (pc \notin {"start", "headers"} /\ WindowChanged) =>
           /\ c > 0
           /\ pc = "error"
           /\ err = "ValueError:checksum"
           /\ data = NoArray
    /\ (pc \notin {"start", "headers"} /\ ~WindowChanged /\ ~VersionFieldChanged)
           => /\ c = 0
              /\ err # "ValueError:checksum"

C2_ChangedByteRejected ==
    /\ WindowChanged
    /\ change.at >= BinSize(sample.version)
    /\ sample.version = 5
    /\ needToReorderBytes
    /\ c > 0
    /\ err = "ValueError:checksum"

\* C2 as stated: changing any single byte of the header pair makes the
\* computed checksum non-zero and decode fail with the checksum error.
C2_AnyByteChangeDetected ==
    (change # NoChange /\ pc \in {"error", "done"}) =>
        /\ c > 0
        /\ err = "ValueError:checksum"

(***************************************************************************)
(* SpecZero: waves without points whose headers agree with that: payload   *)
(* length 0, zero extents, zero padding.                                   *)
(***************************************************************************)
\* the type codes of SpecZero: text, int8, complex128
ZeroTypes == {0, 8, 5}

ZeroSamples ==
    { Sample(v, o, ty, 0, 0, << 0, 0, 0, 0 >>,
             IF v \in {2, 3} THEN Zeros(16) ELSE << >>,
             SectionsOf(v, s), << >>) :
          v \in Versions, o \in ByteOrders, ty \in ZeroTypes,
          s \in 0..MaxSection }

InitZero ==
    \E p \in ZeroSamples :
        \E bo \in {"little", "big"} :
            Start(bo, TRUE, p, SampleFile(p), NoChange)

SpecZero == InitZero /\ [][Next]_vars

NoPayloadRead == \A i \in 1..Len(reads) : reads[i].sec # "payload"

\* C5: a wave of any version, text or numeric, whose header pair passes the
\* checksum and whose point count is 0 decodes without error to an empty
\* array, and no payload bytes are read.
C5_ZeroPointsDecodeEmpty ==
    (HeadersDecoded /\ wave_info["npnts"] = 0) =>
        /\ err = "none"
        /\ NoPayloadRead
        /\ pc = "done" => data.items = << >>

(***************************************************************************)
(* Properties of the trailing sections, over the sample waves of Spec.     *)
(***************************************************************************)
\* the reads made after the payload
TrailingReads ==
    SelectSeq(reads, LAMBDA r : r.sec \notin (HeaderSections \cup {"payload"}))

\* the section names and size fields in the order stated for each version
StatedSections ==
    CASE version = 1 -> << >>
      [] version = 2 -> << << "padding", 16 >>, << "note", bin_info["noteSize"] >> >>
      [] version = 3 -> << << "padding", 16 >>, << "note", bin_info["noteSize"] >>,
                           << "formula", bin_info["formulaSize"] >> >>
      [] version = 5 ->
            << << "formula", bin_info["formulaSize"] >>,
               << "note", bin_info["noteSize"] >>,
               << "dataEUnits", bin_info["dataEUnitsSize"] >>,
               << "dimEUnits0", bin_info["dimEUnitsSize"][1] >>,
               << "dimEUnits1", bin_info["dimEUnitsSize"][2] >>,
               << "dimEUnits2", bin_info["dimEUnitsSize"][3] >>,
               << "dimEUnits3", bin_info["dimEUnitsSize"][4] >>,
               << "dimLabels0", bin_info["dimLabelsSize"][1] >>,
               << "dimLabels1", bin_info["dimLabelsSize"][2] >>,
               << "dimLabels2", bin_info["dimLabelsSize"][3] >>,
               << "dimLabels3", bin_info["dimLabelsSize"][4] >> >>
            \o (IF wave_info["type"] = 0
                THEN << << "sIndices", bin_info["sIndicesSize"] >> >>
                ELSE << >>)

\* C6: once the trailing sections of a wave are read, the reads made after the
\* payload are the version's sections in the stated order, each starting at
\* the byte where the previous one ended and spanning the length held in its
\* bin-header size field.
C6_TrailingSectionsInOrder ==
    pc \in {"split", "done"} =>
        LET tr == TrailingReads
        IN /\ Len(tr) = Len(StatedSections)
           /\ \A i \in 1..Len(tr) :
                  /\ tr[i].sec = StatedSections[i][1]
                  /\ tr[i].got = StatedSections[i][2]
                  /\ i > 1 => tr[i].start = tr[i - 1].start + tr[i - 1].got

\* C7: a version 2 or 3 file with a non-zero byte in its padding is not decoded
\* past the padding in strict mode and is decoded with a warning in lenient
\* mode; all-zero padding neither fails nor warns.  (The comparison of the
\* lenient result with that of the zero-padded file relates two decodes and
\* is not part of this formula.)
C7_PaddingChecked ==
    sample.version \in {2, 3} =>
        /\ (NotNull(sample.padding) /\ strict) => pc \notin {"split", "done"}
        /\ (NotNull(sample.padding) /\ ~strict /\ pc \in {"split", "done"})
               => warned
        /\ ~NotNull(sample.padding) =>
               (~warned /\ err # "ValueError:padding")

(***************************************************************************)
(* SpecSplit: version-5 text waves of five payload bytes with every short  *)
(* string-index table, one index per point.                                *)
(***************************************************************************)
\* "abcde", and the same with a byte above 127
SplitPayloads == { << 97, 98, 99, 100, 101 >>, << 97, 98, 233, 100, 101 >> }

\* index values: the small ones, the payload length and one past the payload
IndexValues == (0..MaxIndex) \cup {5, 7}

RECURSIVE TablesOf(_)
TablesOf(n) ==
    IF n = 0 THEN { << >> }
    ELSE TablesOf(n - 1)
         \cup { Append(tb, i) : tb \in { x \in TablesOf(n - 1) : Len(x) = n - 1 },
                                i \in IndexValues }

SplitTables(n) == TablesOf(n) \cup { << 0, 1, 3, 5 >> }

\* the text wave of payload pl and table tb, with extents nd
SplitSample(pl, tb, nd) ==
    [ Sample(5, "<", 0, Len(tb), Len(pl), nd, << >>, SectionsOf(5, 0), tb)
        EXCEPT !.payload = pl ]

InitSplit ==
    \E pl \in SplitPayloads, tb \in SplitTables(MaxTable) :
        \E nd \in { << Len(tb), 0, 0, 0 >>, << Len(tb), 1, 0, 0 >> } :
            \E p \in {SplitSample(pl, tb, nd)} :
                Start("little", TRUE, p, SampleFile(p), NoChange)

SpecSplit == InitSplit /\ [][Next]_vars

\* the splitter has walked the string-index table of a text wave
SplitterRan ==
    /\ HeadersDecoded
    /\ wave_info["type"] = 0
    /\ "sIndices" \in DOMAIN bin_info
    /\ pc \in {"done", "error"}

\* the payload bytes the array of a text wave is made of
TextPayload == Slice(data_b, 0, waveDataSize)

\* the walk as stated: an index above the running start closes a string and
\* becomes the running start, any other index appends nothing
RECURSIVE StatedSplit(_, _, _, _)
StatedSplit(payload, table, start, out) ==
    IF table = << >> THEN [strings |-> out, start |-> start]
    ELSE IF Head(table) > start
    THEN StatedSplit(payload, Tail(table), Head(table),
                     Append(out, Slice(payload, start, Head(table))))
    ELSE StatedSplit(payload, Tail(table), start, out)

\* the walk meets an index below the running start that is not zero
RECURSIVE MeetsDecreasingIndex(_, _)
MeetsDecreasingIndex(table, start) ==
    IF table = << >> THEN FALSE
    ELSE IF Head(table) > start THEN MeetsDecreasingIndex(Tail(table), Head(table))
    ELSE (Head(table) < start /\ Head(table) # 0)
         \/ MeetsDecreasingIndex(Tail(table), start)

\* every index of the table is zero or above the running start it meets
RECURSIVE OnlyZeroOrAdvancing(_, _)
OnlyZeroOrAdvancing(table, start) ==
    IF table = << >> THEN TRUE
    ELSE IF Head(table) > start THEN OnlyZeroOrAdvancing(Tail(table), Head(table))
    ELSE Head(table) = 0 /\ OnlyZeroOrAdvancing(Tail(table), start)

\* C8: when every index of a text wave's table is zero or above the running
\* start, the strings split off are those of the stated walk (bytes mapped 1:1
\* to characters), they are non-empty, and their concatenation is the payload
\* from 0 to the final running start.
C8_SplitterWalksTable ==
    (SplitterRan /\ OnlyZeroOrAdvancing(bin_info["sIndices"], 0)) =>
        LET stated == StatedSplit(TextPayload, bin_info["sIndices"], 0, << >>)
        IN /\ strings = stated.strings
           /\ \A i \in 1..Len(strings) : strings[i] # << >>
           /\ Concat(strings) = Slice(TextPayload, 0, stated.start)

\* C9: on a payload of 7-bit characters the splitter's consistency check fails
\* exactly when the walk meets an index that is below the running start and
\* not zero; a table whose indices never decrease, repeats included, is split
\* without error.
C9_SplitterFailsOnDecrease ==
    (SplitterRan /\ \A i \in 1..Len(TextPayload) : TextPayload[i] < 128) =>
        (err = "AssertionError:offset"
             <=> MeetsDecreasingIndex(bin_info["sIndices"], 0))

\* C10: the strings returned for a text wave have the shape the shape rule
\* gives the wave's dimension extents.
C10_StringsReshaped ==
    (HeadersDecoded /\ wave_info["type"] = 0 /\ pc = "done") =>
        data.shape = ShapeOf(wave_info["nDim"])

(***************************************************************************)
(* SpecUnpack: Structure.unpack_dict_from on a buffer that holds a packed  *)
(* structure at an offset, less some bytes at its end.                     *)
(***************************************************************************)
Structures ==
    { BinHeaderCommon, BinHeader1, BinHeader2, BinHeader3, BinHeader5,
      WaveHeader2, WaveHeader5 }

\* the field values packed into the buffer
UnpackValues(n) == ("npnts" :> n) @@ ("type" :> 8) @@ ("version" :> 5)

\* offset bytes of another record, then the structure less its last cut bytes
UnpackBuffer(S, order, n, cut, offset) ==
    LET packed == PackFields(S.fields, order, UnpackValues(n))
    IN [i \in 1..offset |-> 255] \o SubSeq(packed, 1, Len(packed) - cut)

InitUnpack ==
    \E S \in Structures, o \in ByteOrders, n \in 0..MaxNpnts,
       k \in 0..MaxCut, off \in 0..MaxOffset :
        \E bo \in {"little", "big"} :
            Start(bo, TRUE,
                  [struct |-> S, order |-> o, npnts |-> n, cut |-> k,
                   offset |-> off],
                  UnpackBuffer(S, o, n, k, off), NoChange)

\* S.set_byte_order(order); S.unpack_dict_from(buffer, offset)
UnpackFrom ==
    /\ pc = "start"
    /\ formats' = set_byte_order(formats, sample.struct.name, sample.order)
    /\ LET o == EffectiveOrder(formats'[sample.struct.name], byteorder)
       IN /\ err' = unpack_from_error(sample.struct, o, file, sample.offset)
          /\ bin_info' = IF err' = "none"
                         THEN unpack_dict_from(sample.struct, o, file,
                                               sample.offset)
                         ELSE << >>
    /\ pc' = IF err' = "none" THEN "done" ELSE "error"
    /\ UNCHANGED << pos, b, version, needToReorderBytes, byteOrder, c,
                    wave_info, tail, waveDataSize, shape, t, data_b, data,
                    strings, warned, reads >>
    /\ UNCHANGED env

NextUnpack == UnpackFrom

SpecUnpack == InitUnpack /\ [][NextUnpack]_vars

WaveHeaderNames == {"WaveHeader2", "WaveHeader5"}

\* C11: unpacking where fewer bytes remain than the structure's size fails
\* for every structure but WaveHeader2 and WaveHeader5; for those two it
\* succeeds, with the fields decoded from the bytes padded with zero bytes,
\* exactly when the decoded npnts is 0, and fails on the npnts assertion
\* otherwise.  When enough bytes remain the fields are decoded from the
\* bytes as they are, whatever npnts is.
C11_ShortUnpackPadsWaveHeaders ==
    pc # "start" =>
        LET S == sample.struct
            fields == {S.fields[i].name : i \in DOMAIN S.fields}
        IN IF sample.cut = 0
           THEN /\ err = "none"
                /\ DOMAIN bin_info = fields
                /\ "npnts" \in fields => bin_info["npnts"] = sample.npnts
                /\ "version" \in fields => bin_info["version"] = 5
           ELSE IF S.name \notin WaveHeaderNames
           THEN err = "struct.error" /\ bin_info = << >>
           ELSE IF sample.npnts # 0
           THEN err = "AssertionError:npnts" /\ bin_info = << >>
           ELSE /\ err = "none"
                /\ bin_info["npnts"] = 0
                /\ bin_info["type"] = 8
                /\ bin_info =
                       UnpackFields(S.fields, sample.order,
                                    file \o Zeros(sample.cut), sample.offset)

C11_ShortWaveHeaderUnpacked ==
    /\ pc = "done"
    /\ sample.struct.name = "WaveHeader5"
    /\ sample.cut = MaxCut
    /\ sample.offset = MaxOffset
    /\ sample.npnts = 0
    /\ bin_info["wData"] = Zeros(4)

(***************************************************************************)
(* SpecPack: Structure.pack followed by Structure.unpack, on the structure *)
(* "thing" of the Structure docstring with a scalar, a repeated and a      *)
(* two-dimensional size field.                                             *)
(***************************************************************************)
\* Structure._flatten_args: the elements of a field of total_count > 1 are
\* appended one by one (for a field of two or more dimensions these are its
\* rows), any other value is appended as it is.  Each item is tagged with
\* whether it is a number.
RECURSIVE flatten_args(_, _)
flatten_args(fs, args) ==
    IF fs = << >> \/ args = << >> THEN << >>
    ELSE LET f == Head(fs)
             a == Head(args)
             items ==
                 IF f.total_count > 1
                 THEN [i \in 1..Len(a) |->
                          [number |-> Len(f.count) <= 1, v |-> a[i]]]
                 ELSE << [number |-> TRUE, v |-> a] >>
         IN items \o flatten_args(Tail(fs), Tail(args))

\* the format characters of a structure, one per packed item
RECURSIVE FormatChars(_)
FormatChars(fs) ==
    IF fs = << >> THEN << >>
    ELSE [k \in 1..Head(fs).total_count |-> Head(fs).format]
         \o FormatChars(Tail(fs))

\* the values struct packs in a format
InRange(format, v) == format = "h" => v \in -32768..32767

RECURSIVE PackItems(_, _, _)
PackItems(chars, order, flat) ==
    IF chars = << >> THEN << >>
    ELSE PackInt(order, Head(flat).v, FormatSize(Head(chars)))
         \o PackItems(Tail(chars), order, Tail(flat))

\* Structure.pack: struct.error unless there is one number in range for
\* every format character
pack(S, order, args) ==
    LET flat == flatten_args(S.fields, args)
        chars == FormatChars(S.fields)
    IN IF \/ Len(flat) # Len(chars)
          \/ \E i \in DOMAIN flat :
                 ~flat[i].number \/ ~InRange(chars[i], flat[i].v)
       THEN [err |-> "struct.error", bytes |-> << >>]
       ELSE [err |-> "none", bytes |-> PackItems(chars, order, flat)]

\* Structure.unpack of a string of the structure's size
unpack(S, order, string) ==
    [i \in DOMAIN S.fields |->
        UnflattenField(S.fields[i], order, string, FieldOffset(S, i))]

\* struct thing { short version; long size...; }
Thing(count) ==
    [name |-> "thing",
     fields |-> << Field("h", "version", << 1 >>), Field("l", "size", count) >>]

ThingCounts == { << 1 >>, << 3 >>, << 3, 2 >> }

\* short and long values, the least and the greatest among them
ShortValues == << -32768, -1, 0, 1, 32767 >>
LongValues == << -2147483647 - 1, -1, 0, 1, 2147483647 >>

\* n long values, starting at the r-th and going round
LongsFrom(r, n) == [k \in 1..n |-> LongValues[((k + r) % Len(LongValues)) + 1]]

PackInputs ==
    { [struct |-> Thing(cnt), order |-> o,
       values |-> << ShortValues[i],
                     IF ProdSeq(cnt) = 1 THEN LongValues[r]
                     ELSE Reshape(LongsFrom(r, ProdSeq(cnt)), cnt) >>] :
          cnt \in ThingCounts, o \in ByteOrders \cup {"="},
          i \in DOMAIN ShortValues, r \in DOMAIN LongValues }

InitPack ==
    \E p \in PackInputs :
        \E bo \in {"little", "big"} :
            Start(bo, TRUE, p, << >>, NoChange)

\* S.unpack(S.pack(*values))
PackUnpack ==
    /\ pc = "start"
    /\ LET o == EffectiveOrder(sample.order, byteorder)
           packed == pack(sample.struct, o, sample.values)
       IN /\ err' = packed.err
          /\ data_b' = packed.bytes
          /\ data' = IF packed.err = "none"
                     THEN Array(<< Len(sample.values) >>,
                                unpack(sample.struct, o, packed.bytes))
                     ELSE NoArray
    /\ pc' = IF err' = "none" THEN "done" ELSE "error"
    /\ UNCHANGED << pos, formats, b, version, needToReorderBytes, byteOrder, c,
                    bin_info, wave_info, tail, waveDataSize, shape, t,
                    strings, warned, reads >>
    /\ UNCHANGED env

NextPack == PackUnpack

SpecPack == InitPack /\ [][NextPack]_vars

\* C12: for every structure, scalar, repeated or shaped fields alike, and
\* every byte order, unpack(pack(values)) is values: as many fields, in the
\* same order, each with the same shape and elements.
C12_PackUnpackRoundTrip ==
    pc # "start" =>
        /\ err = "none"
        /\ data.items = sample.values

(***************************************************************************)
(* SpecShared: a decode call, and between its steps another decode call    *)
(* that resolves the byte order of a file of the same version.  The        *)
(* Structures and their formats are module-level objects that both calls   *)
(* use.                                                                    *)
(***************************************************************************)
\* lines 498-507 of the other call, on a file of byte order o
OtherResolve ==
    /\ pc \in {"start", "headers", "payload", "trailing", "split"}
    /\ \E o \in ByteOrders :
           LET f0 == set_byte_order(formats, "BinHeaderCommon", "=")
               reorder == o # NativeOrder(byteorder)
               f1 == IF reorder
                     THEN set_byte_order(f0, "BinHeaderCommon",
                                         byte_order(reorder, byteorder))
                     ELSE f0
           IN formats' = version_structs(sample.version,
                                         byte_order(reorder, byteorder),
                                         f1).formats
    /\ UNCHANGED << pos, pc, err, b, version, needToReorderBytes, byteOrder, c,
                    bin_info, wave_info, tail, waveDataSize, shape, t, data_b,
                    data, strings, warned, reads >>
    /\ UNCHANGED env

InitShared ==
    \E p \in FlipSamples :
        \E bo \in {"little", "big"} :
            Start(bo, TRUE, p, SampleFile(p), NoChange)

NextShared == Next \/ OtherResolve

SpecShared == InitShared /\ [][NextShared]_vars

\* the same decode calls, each run alone
SpecAlone == InitShared /\ [][Next]_vars

\* what a decode of SpecAlone returns: no error, and the header values of
\* the file
DecodesAsAlone ==
    /\ err = "none"
    /\ HeadersDecoded =>
           /\ bin_info["version"] = sample.version
           /\ wave_info["npnts"] = sample.npnts
           /\ wave_info["type"] = sample.type
    /\ pc = "done" => data.items = sample.payload

\* C13: a decode call interleaved with another decode call on an
\* independent file, of the other byte order or not, returns what it returns
\* when run alone.
C13_InterleavedDecodeUnaffected == DecodesAsAlone

(***************************************************************************)
(* SpecSum: checksum on short buffers, with starting values around 0,      *)
(* 2^16, 2^31 and 2^32.                                                    *)
(***************************************************************************)
SumBytes == {0, 128, 255}

RECURSIVE BuffersOf(_)
BuffersOf(n) ==
    IF n = 0 THEN { << >> }
    ELSE BuffersOf(n - 1)
         \cup { Append(x, v) : x \in { y \in BuffersOf(n - 1) : Len(y) = n - 1 },
                               v \in SumBytes }

\* starting values as (hi, lo) pairs: -1, 0, 65535, 2^31 - 1, 2^31, 2^31 + 1,
\* 2^32 - 1, 2^32 + 1, 2^32 + 2^31 + 1
SumStarts ==
    { [hi |-> -1, lo |-> 65535], [hi |-> 0, lo |-> 0], [hi |-> 0, lo |-> 65535],
      [hi |-> 32767, lo |-> 65535], [hi |-> 32768, lo |-> 0],
      [hi |-> 32768, lo |-> 1], [hi |-> 65535, lo |-> 65535],
      [hi |-> 65536, lo |-> 1], [hi |-> 98304, lo |-> 1] }

InitSum ==
    \E buf \in BuffersOf(MaxBuf), o \in ByteOrders, old \in SumStarts :
        \E n \in 0..(Len(buf) + 1) :
            Start("little", TRUE,
                  [buf |-> buf, order |-> o, old |-> old, n |-> n], buf,
                  NoChange)

\* checksum(buffer, byte_order, oldcksum, numbytes)
Checksum ==
    /\ pc = "start"
    /\ LET r == checksum_wide(file, sample.order, sample.old, sample.n)
       IN /\ c' = IF r.ok THEN r.c ELSE -1
          /\ err' = IF r.ok THEN "none" ELSE "TypeError:buffer"
    /\ pc' = IF err' = "none" THEN "done" ELSE "error"
    /\ UNCHANGED << pos, formats, b, version, needToReorderBytes, byteOrder,
                    bin_info, wave_info, tail, waveDataSize, shape, t, data_b,
                    data, strings, warned, reads >>
    /\ UNCHANGED env

NextSum == Checksum

SpecSum == InitSum /\ [][NextSum]_vars

\* word number k (from 1) of buf read as a signed 16-bit integer
StatedWord(buf, order, k) ==
    LET first == buf[2 * k - 1]
        second == buf[2 * k]
        u == IF order = "<" THEN 256 * second + first ELSE 256 * first + second
    IN IF u >= 32768 THEN u - 65536 ELSE u

RECURSIVE StatedWordSum(_, _, _)
StatedWordSum(buf, order, n) ==
    IF n = 0 THEN 0
    ELSE StatedWordSum(buf, order, n - 1) + StatedWord(buf, order, n)

\* C14: on a buffer that holds the first floor(n/2) words, checksum returns
\* a value in 0..65535 equal to oldcksum plus the sum of those words, read
\* as signed 16-bit integers in the given byte order, modulo 2^16; a trailing
\* odd byte and the bytes past n do not affect it, and neither does the
\* 2^32 / 2^31 adjustment.
C14_ChecksumIsSumMod65536 ==
    (pc # "start" /\ 2 * (sample.n \div 2) <= Len(file)) =>
        LET words == sample.n \div 2
        IN /\ err = "none"
           /\ c \in 0..65535
           /\ c = (sample.old.lo
                     + StatedWordSum(file, sample.order, words)) % 65536
           /\ c = checksum_wide(SubSeq(file, 1, 2 * words), sample.order,
                                sample.old, 2 * words).c

C14_RolloverAdjusted ==
    /\ pc = "done"
    /\ sample.old.hi = 98304
    /\ sample.order = ">"
    /\ sample.n = 3
    /\ file = << 0, 0, 255, 255 >>
    /\ c = 1

(***************************************************************************)
(* The bytes consumed when the trailing sections start, over the sample    *)
(* waves of Spec.                                                          *)
(***************************************************************************)
\* the tail as stated: 16 bytes for versions 1 to 3, 4 for version 5
StatedTail == IF version = 5 THEN 4 ELSE 16

\* C15: when the first trailing section of a wave with points starts, the
\* bytes consumed are the bin header, the wave header less its tail, and the
\* payload; the payload read asks for no negative number of bytes.
C15_PayloadReadEndsAtPayload ==
    (pc = "trailing" /\ wave_info["npnts"] # 0) =>
        /\ pos = BinSize(version) + (WaveSize(version) - StatedTail)
                   + StatedPayloadLength
        /\ \A i \in 1..Len(reads) :
               reads[i].sec = "payload" => reads[i].size >= 0

====
